---- MODULE Spec2Model ----
(***************************************************************************)
(* Bridge: webhook-to-queue dispatch.                                      *)
(*                                                                         *)
(* Spec          the debounced ERP webhook (POST /webhook) of              *)
(*               src/src/index.ts and src/unnamed/part_003 (the two files  *)
(*               hold the same code for this route): the pendingEvents     *)
(*               map, the Node timers, the asynchronous producer.add call. *)
(* SpecLive      Spec with the timers of Node expiring fairly.              *)
(* SpecDispatch  the request-driven routes of both files and the timer     *)
(*               callback seen as a dispatch site: what each one submits   *)
(*               to the queue and what it answers.                         *)
(***************************************************************************)
EXTENDS Integers, Sequences, FiniteSets, TLC

VARIABLES
    now,            \* wall clock, in ms
    pendingEvents,  \* Map<string, Timeout>: key -> handle of the timer
    timers,         \* Node's timer list: scheduled, not yet fired, not cleared
    accepted,       \* history: the ERP events answered 202, in arrival order
    added,          \* history: the producer.add calls of the timer callbacks
    nReq,           \* number of POST /webhook requests served
    resp,           \* the response to the last POST /webhook request
    last,           \* SpecDispatch: the last request served, with its outcome
    earlier         \* SpecDispatch: an add call of some earlier request (any one)

vars == <<now, pendingEvents, timers, accepted, added, nReq, resp, last, earlier>>

erpVars == <<now, pendingEvents, timers, accepted, added, nReq, resp>>
dispatchVars == <<last, earlier>>

----------------------------------------------------------------------------
(* JavaScript values                                                       *)

\* an absent property / undefined
Undefined == "<undefined>"

Defined(v) == v # Undefined

\* truthiness of a string-or-undefined value: !v is true for undefined and ""
Truthy(v) == v # Undefined /\ v # ""

\* interpolation inside a template literal: `${v}`
ToStr(v) == IF v = Undefined THEN "undefined" ELSE v

----------------------------------------------------------------------------
(* Text: a string whose characters the code inspects is a sequence of      *)
(* one-character strings                                                   *)

UpperCase == <<"A", "B", "C", "D", "E", "F", "G", "H", "I", "J", "K", "L", "M",
               "N", "O", "P", "Q", "R", "S", "T", "U", "V", "W", "X", "Y", "Z">>
LowerCase == <<"a", "b", "c", "d", "e", "f", "g", "h", "i", "j", "k", "l", "m",
               "n", "o", "p", "q", "r", "s", "t", "u", "v", "w", "x", "y", "z">>

ToLowerChar(c) ==
    IF \E i \in DOMAIN UpperCase : UpperCase[i] = c
    THEN LowerCase[CHOOSE i \in DOMAIN UpperCase : UpperCase[i] = c]
    ELSE c

\* String.prototype.toLowerCase
ToLowerCase(s) == [i \in DOMAIN s |-> ToLowerChar(s[i])]

\* String.prototype.includes
Includes(s, pat) ==
    \E i \in 0..(Len(s) - Len(pat)) : SubSeq(s, i + 1, i + Len(pat)) = pat

\* String.prototype.startsWith
StartsWith(s, pat) == Len(s) >= Len(pat) /\ SubSeq(s, 1, Len(pat)) = pat

Repeat(c, n) == [i \in 1..n |-> c]

----------------------------------------------------------------------------
(* Bounds                                                                  *)

MaxEvents == 3
MaxTicks == 5
TicksPerWindow == 2
MaxBatch == 2

----------------------------------------------------------------------------
(* The queues, the add calls, the responses                                *)

\* removeOnComplete / removeOnFail: true, false or { age, count }
Remove(flag) == [kind |-> IF flag THEN "true" ELSE "false", age |-> 0, count |-> 0]
KeepLimits(age, count) == [kind |-> "limits", age |-> age, count |-> count]
Unset == [kind |-> "unset", age |-> 0, count |-> 0]

\* the third argument of queue.add
JobOpts(jobId, removeOnComplete, removeOnFail) ==
    [jobId |-> jobId, removeOnComplete |-> removeOnComplete,
     removeOnFail |-> removeOnFail]

\* queue.add(name, data, opts); ident is the tuple of identity-bearing fields
\* of the payload the call was built from; ok: the call resolved (TRUE) or
\* rejected (FALSE)
AddCall(queue, name, data, opts, ident, ok) ==
    [queue |-> queue, name |-> name, data |-> data, opts |-> opts,
     ident |-> ident, ok |-> ok]

\* the policy part of job options: attempts, backoff and the two retentions
Policy(attempts, delay, removeOnComplete, removeOnFail) ==
    [attempts |-> attempts, backoff |-> [type |-> "exponential", delay |-> delay],
     removeOnComplete |-> removeOnComplete, removeOnFail |-> removeOnFail]

DefaultJobOptionsAllProducer(queue) == Policy(5, 2000, Remove(TRUE), Remove(FALSE))

\* defaultJobOptions of the queue: producer (queue.ts of either version) and
\* rfqQueue
DefaultJobOptions(queue) ==
    IF queue = "rfqQueue"
    THEN Policy(3, 1000, KeepLimits(24 * 3600, 500), KeepLimits(7 * 24 * 3600, 500))
    ELSE Policy(5, 2000, Remove(TRUE), Remove(FALSE))

\* res.status(status).json({ status / error: msg })
JsonResponse(status, msg) ==
    [status |-> status, ctype |-> "application/json", text |-> <<>>, json |-> msg]

\* res.status(status).set("Content-Type", "text/plain").send(text)
TextResponse(status, text) ==
    [status |-> status, ctype |-> "text/plain", text |-> text, json |-> ""]

NoResponse == [status |-> 0, ctype |-> "", text |-> <<>>, json |-> ""]

\* a request that has been served: where the route is defined, what came in,
\* what was answered, which add calls were made (in order)
Served(route, src, req, response, calls) ==
    [route |-> route, src |-> src, req |-> req, resp |-> response, calls |-> calls]

Idle == Served("none", "", Undefined, NoResponse, <<>>)

NoCall == [route |-> "none"]

\* the identity view of an add call made while serving a request
Identity(served, call) ==
    [route |-> served.route, src |-> served.src, name |-> call.name,
     ident |-> call.ident, jobId |-> call.opts.jobId,
     data |-> call.data, ok |-> call.ok]

\* a request is served while none is under observation
Observe(outcome) ==
    /\ last = Idle
    /\ last' = outcome
    /\ UNCHANGED earlier

\* the observed request is dropped; any one of its add calls may be kept as
\* the earlier call later ones are compared with
Retire ==
    /\ last # Idle
    /\ last' = Idle
    /\ \/ UNCHANGED earlier
       \/ \E i \in DOMAIN last.calls : earlier' = Identity(last, last.calls[i])

----------------------------------------------------------------------------
(* POST /webhook: the debounce                                             *)

ShortWindow == 5 * 1000

DEBOUNCE_MS == 10000

\* the clock advances in steps of this many ms
TickMs == DEBOUNCE_MS \div TicksPerWindow

\* payload.data: absent, an object (with or without the "No." property), or
\* a non-empty string, which is truthy and has no "No." property
Data(No, price) == [present |-> TRUE, isObject |-> TRUE, No |-> No, price |-> price]
NoData == [present |-> FALSE, isObject |-> FALSE, No |-> Undefined, price |-> 0]
TextData == [present |-> TRUE, isObject |-> FALSE, No |-> Undefined, price |-> 0]

ErpPayload(table, action, data) ==
    [isObject |-> TRUE, table |-> table, action |-> action, data |-> data]

\* a request body that is a string (text/plain): it has none of the properties
TextPayload ==
    [isObject |-> FALSE, table |-> Undefined, action |-> Undefined, data |-> NoData]

\* request bodies of POST /webhook: two events of record (Item, X1) that
\* differ in action and data, an event of another record, two events whose
\* table and "No." hold a colon, and bodies that lack a required field
ErpPayloads ==
    { ErpPayload("Item", "update", Data("X1", 10)),
      ErpPayload("Item", "delete", Data("X1", 12)),
      ErpPayload("Item", "update", Data("X2", 10)),
      ErpPayload("A:B", "update", Data("C", 10)),
      ErpPayload("A", "update", Data("B:C", 10)) }
    \cup
    { ErpPayload(Undefined, "update", Data("X1", 10)),
      ErpPayload("Item", Undefined, Data("X1", 10)),
      ErpPayload("Item", "update", NoData),
      ErpPayload("Item", "update", Data(Undefined, 10)),
      ErpPayload("Item", "update", Data("", 12)),
      ErpPayload("Item", "update", TextData),
      TextPayload }

\* const key = `${table}:${erpNo}`
CorrelationKey(table, erpNo) == ToStr(table) \o ":" \o ToStr(erpNo)

EmptyMap == [k \in {} |-> 0]

MapHas(m, k) == k \in DOMAIN m

MapSet(m, k, v) == [x \in (DOMAIN m) \cup {k} |-> IF x = k THEN v ELSE m[x]]

MapDeleteAll(m, k) == EmptyMap

MapKeep(m, k) == m

MapDelete(m, k) == [x \in (DOMAIN m) \ {k} |-> m[x]]

ClearAllTimeouts(ts, handle) == {}

\* clearTimeout(handle): a handle that has fired or was cleared is ignored
ClearTimeout(ts, handle) == {t \in ts : t.id # handle}

ExpireRepeating(ts, t) == ts

\* a timer set with setTimeout fires once: it leaves the timer list as it fires
Expire(ts, t) == ts \ {t}

\* the job options of producer.add("bc-sync", payload): none are passed
NoOpts == JobOpts(Undefined, Unset, Unset)

BcSyncCall(payload) == [name |-> "bc-sync", data |-> payload, opts |-> NoOpts]

\* app.post("/webhook"): the whole handler runs without suspending. Requests
\* are followed while a timer set now fires within the MaxTicks ticks.
Webhook(payload) ==
    /\ nReq < MaxEvents
    /\ now + DEBOUNCE_MS <= MaxTicks * TickMs
    /\ nReq' = nReq + 1
    /\ IF ~Truthy(payload.table) \/ ~Truthy(payload.action) \/ ~payload.data.present
       THEN /\ resp' = JsonResponse(400, "Invalid payload")
            /\ UNCHANGED <<pendingEvents, timers, accepted>>
       ELSE LET table == payload.table
                erpNo == payload.data.No
            IN  IF ~Truthy(erpNo)
                THEN /\ resp' = JsonResponse(400, "ERP No missing in data")
                     /\ UNCHANGED <<pendingEvents, timers, accepted>>
                ELSE LET key == CorrelationKey(table, erpNo)
                         handle == Len(accepted) + 1
                         kept == IF MapHas(pendingEvents, key)
                                 THEN ClearTimeout(timers, pendingEvents[key])
                                 ELSE timers
                     IN  /\ timers' = kept \cup
                                {[id |-> handle, key |-> key, payload |-> payload,
                                  due |-> now + DEBOUNCE_MS]}
                         /\ pendingEvents' = MapSet(pendingEvents, key, handle)
                         /\ accepted' = Append(accepted,
                                [key |-> key, payload |-> payload, at |-> now])
                         /\ resp' = JsonResponse(202, "accepted")
    /\ UNCHANGED <<now, added>>

\* the timer callback up to its await: producer.add("bc-sync", payload) is
\* called and the callback suspends. Timers of one duration fire in the order
\* they were set. seen and settledSeen record how many events had been
\* accepted when the call was made and when it settled.
TimerFire(t) ==
    /\ t \in timers
    /\ now >= t.due
    /\ \A u \in timers : t.id <= u.id
    /\ timers' = Expire(timers, t)
    /\ added' = Append(added,
            BcSyncCall(t.payload) @@
            [timer |-> t.id, key |-> t.key, at |-> now,
             seen |-> Len(accepted), result |-> "pending", settledSeen |-> 0])
    /\ UNCHANGED <<now, pendingEvents, accepted, nReq, resp>>

\* the rest of the timer callback: the add call resolves or rejects (the
\* rejection is only logged), then finally { pendingEvents.delete(key) }
AddSettled(n, ok) ==
    /\ n \in DOMAIN added
    /\ added[n].result = "pending"
    /\ added' = [added EXCEPT ![n].result = IF ok THEN "enqueued" ELSE "logged",
                              ![n].settledSeen = Len(accepted)]
    /\ pendingEvents' = MapDelete(pendingEvents, added[n].key)
    /\ UNCHANGED <<now, timers, accepted, nReq, resp>>

\* time passes; a timer that is due fires before the clock moves on
Tick ==
    /\ now < MaxTicks * TickMs
    /\ \A t \in timers : now < t.due
    /\ now' = now + TickMs
    /\ UNCHANGED <<pendingEvents, timers, accepted, added, nReq, resp>>

\* the state after the module has been loaded
Init ==
    /\ now = 0
    /\ pendingEvents = EmptyMap
    /\ timers = {}
    /\ accepted = <<>>
    /\ added = <<>>
    /\ nReq = 0
    /\ resp = NoResponse
    /\ last = Idle
    /\ earlier = NoCall

Next ==
    \/ \E payload \in ErpPayloads : Webhook(payload) /\ UNCHANGED dispatchVars
    \/ \E t \in timers : TimerFire(t) /\ UNCHANGED dispatchVars
    \/ \E n \in DOMAIN added, ok \in BOOLEAN : AddSettled(n, ok) /\ UNCHANGED dispatchVars
    \/ Tick /\ UNCHANGED dispatchVars

Spec == Init /\ [][Next]_vars

\* Node runs its timers: the clock advances and a timer that is due fires.
\* Requests may stop arriving at any time, and an add call may stay pending.
TimerStep == \E t \in timers : TimerFire(t) /\ UNCHANGED dispatchVars
ClockStep == Tick /\ UNCHANGED dispatchVars

SpecLive == Init /\ [][Next]_vars /\ WF_vars(ClockStep) /\ WF_vars(TimerStep)

----------------------------------------------------------------------------
(* The timer callback of POST /webhook as a dispatch site                  *)

\* the payloads a timer callback can hold: those the handler accepted
AcceptedErpPayloads ==
    {p \in ErpPayloads :
        Truthy(p.table) /\ Truthy(p.action) /\ p.data.present /\ Truthy(p.data.No)}

\* the whole setTimeout callback run on a payload: producer.add("bc-sync",
\* payload), the outcome logged, the map entry deleted; nobody is answered
DebouncedDispatch(payload, ok) ==
    LET call == BcSyncCall(payload) @@
                [queue |-> "producer",
                 ident |-> <<payload.table, payload.data.No>>, ok |-> ok]
    IN  /\ Observe(Served("setTimeout callback", "index.ts", payload, NoResponse,
                          <<call>>))
        /\ pendingEvents' =
              MapDelete(pendingEvents, CorrelationKey(payload.table, payload.data.No))
        /\ UNCHANGED <<now, timers, accepted, added, nReq, resp>>

----------------------------------------------------------------------------
(* The request-driven routes                                               *)

\* a || b on strings
OrElse(v, dflt) == IF Truthy(v) THEN v ELSE dflt

TryAddSwallowed(ok, success, failure) == success

\* try { await queue.add(...); <success response> } catch { <failure response> }
TryAdd(ok, success, failure) == IF ok THEN success ELSE failure

\* --- POST /webhook of src/unnamed/part_002: no debounce ---

DirectWebhook(payload, ok) ==
    /\ Observe(
         IF ~Truthy(payload.table) \/ ~Truthy(payload.action) \/ ~payload.data.present
         THEN Served("POST /webhook", "part_002", payload,
                     JsonResponse(400, "Invalid payload"), <<>>)
         ELSE Served("POST /webhook", "part_002", payload,
                     TryAdd(ok, JsonResponse(202, "accepted"),
                                JsonResponse(500, "Failed to enqueue job")),
                     <<BcSyncCall(payload) @@
                       [queue |-> "producer",
                        ident |-> <<payload.table, payload.data.No>>, ok |-> ok]>>))
    /\ UNCHANGED erpVars

\* --- POST /sales-quote-webhook ---

\* a number-valued property: absent, or the number n
Absent == [has |-> FALSE, n |-> 0]
Num(n) == [has |-> TRUE, n |-> n]

\* a || b on numbers: 0 is falsy
NumOrElse(v, dflt) == IF v.has /\ v.n # 0 THEN v ELSE dflt

NoLines == [isArray |-> FALSE, items |-> <<>>]

\* an element of payload.lines; unitPrice and quantity are always supplied
Line(itemNo, oppNo, convertToOrder, lineAmount) ==
    [isNull |-> FALSE, lineNo |-> "10000", itemNo |-> itemNo, oppNo |-> oppNo,
     convertToOrder |-> convertToOrder, lineAmount |-> lineAmount,
     unitPrice |-> Num(5), quantity |-> Num(2)]

\* a null element of payload.lines
NullLine ==
    [isNull |-> TRUE, lineNo |-> Undefined, itemNo |-> Undefined, oppNo |-> Undefined,
     convertToOrder |-> Undefined, lineAmount |-> Absent,
     unitPrice |-> Absent, quantity |-> Absent]

QuoteLines ==
    {<<>>,
     <<Line("I1", Undefined, Undefined, Absent)>>,
     <<Line(Undefined, "OP9", "false", Num(0))>>,
     <<Line("I1", "OP9", "true", Num(7))>>,
     <<NullLine>>,
     <<Line("I1", Undefined, "false", Num(7)), NullLine>>}

\* req.body of POST /sales-quote-webhook: a parsed object, or a string
\* (text/plain), which has none of the properties
SalesQuotePayloads ==
    [isObject : {TRUE},
     salesQuoteNo : {Undefined, "SQ1", "SQ2"}, opportunityNo : {Undefined, "OP1"},
     customerName : {Undefined, "Acme"},
     validityDays : {Absent, Num(0), Num(15)},
     lines : {NoLines} \cup [isArray : {TRUE}, items : QuoteLines]]
    \cup
    {[isObject |-> FALSE, salesQuoteNo |-> Undefined, opportunityNo |-> Undefined,
      customerName |-> Undefined, validityDays |-> Absent, lines |-> NoLines]}

HeaderInfo(payload) ==
    [salesQuoteNo |-> payload.salesQuoteNo, customerName |-> payload.customerName,
     opportunityNo |-> payload.opportunityNo]

\* reading a property of a line throws a TypeError when the line is null
LinesThrow(payload) ==
    payload.lines.isArray /\ \E i \in DOMAIN payload.lines.items :
                                  payload.lines.items[i].isNull

CustomerQuoteJobIdWithName(payload) ==
    "customer-quote-" \o ToStr(payload.salesQuoteNo) \o ToStr(payload.customerName)

\* jobId: `customer-quote-${headerInfo.salesQuoteNo}`
CustomerQuoteJobId(payload) == "customer-quote-" \o ToStr(payload.salesQuoteNo)

\* src/src/index.ts: nothing is validated; the lines are logged one by one
\* (payload.lines.forEach) before the add call
SalesQuoteV1(payload, ok) ==
    LET call == AddCall("producer", "pg-events",
                    [model |-> "CustomerQuote", operation |-> "create_from_sales_quote",
                     payload |-> [header |-> HeaderInfo(payload),
                                  lines |-> payload.lines]],
                    JobOpts(CustomerQuoteJobId(payload), Remove(TRUE), Remove(FALSE)),
                    <<payload.salesQuoteNo>>, ok)
    IN  /\ Observe(
             IF LinesThrow(payload)
             THEN Served("POST /sales-quote-webhook", "index.ts", payload,
                         JsonResponse(500, "Failed to handle Sales Quote webhook"), <<>>)
             ELSE Served("POST /sales-quote-webhook", "index.ts", payload,
                     TryAdd(ok, JsonResponse(200, "success"),
                                JsonResponse(500, "Failed to handle Sales Quote webhook")),
                     <<call>>))
        /\ UNCHANGED erpVars

\* line.lineAmount || line.unitPrice * (line.quantity || 0)
LineAmount(line) ==
    NumOrElse(line.lineAmount,
              Num(line.unitPrice.n * NumOrElse(line.quantity, Num(0)).n))

\* line.convertToOrder !== undefined ? line.convertToOrder : true
ConvertToOrder(line) ==
    IF line.convertToOrder # Undefined THEN line.convertToOrder ELSE "true"

JobLine(line, payload) ==
    [lineNo |-> line.lineNo, itemNo |-> OrElse(line.itemNo, ""),
     internalItemId |-> OrElse(line.itemNo, ""),
     quantity |-> NumOrElse(line.quantity, Num(0)),
     unitPrice |-> NumOrElse(line.unitPrice, Num(0)),
     lineAmount |-> LineAmount(line),
     oppNo |-> OrElse(line.oppNo, payload.opportunityNo),
     convertToOrder |-> ConvertToOrder(line)]

\* payload.validityDays || 30
ValidityDays(payload) == NumOrElse(payload.validityDays, Num(30))

\* jobData of src/unnamed/part_003
CustomerQuoteSyncJobData(payload) ==
    [salesQuoteNo |-> payload.salesQuoteNo,
     customerName |-> OrElse(payload.customerName, ""),
     opportunityNo |-> payload.opportunityNo,
     validityDays |-> ValidityDays(payload),
     lines |-> [i \in DOMAIN payload.lines.items |->
                    JobLine(payload.lines.items[i], payload)]]

\* jobId: `customer-quote-sync-${jobData.salesQuoteNo}`
CustomerQuoteSyncJobId(payload) ==
    "customer-quote-sync-" \o ToStr(CustomerQuoteSyncJobData(payload).salesQuoteNo)

\* src/unnamed/part_003
SalesQuoteV2(payload, ok) ==
    /\ Observe(
         IF ~Truthy(payload.salesQuoteNo) \/ ~Truthy(payload.opportunityNo)
         THEN Served("POST /sales-quote-webhook", "part_003", payload,
                     JsonResponse(400, "Missing required fields (salesQuoteNo, opportunityNo)"),
                     <<>>)
         ELSE IF ~payload.lines.isArray \/ Len(payload.lines.items) = 0
         THEN Served("POST /sales-quote-webhook", "part_003", payload,
                     JsonResponse(400, "Sales quote must have at least one line"), <<>>)
         ELSE IF LinesThrow(payload)
         THEN Served("POST /sales-quote-webhook", "part_003", payload,
                     JsonResponse(500, "Failed to handle Sales Quote webhook"), <<>>)
         ELSE Served("POST /sales-quote-webhook", "part_003", payload,
                     TryAdd(ok, JsonResponse(200, "success"),
                                JsonResponse(500, "Failed to handle Sales Quote webhook")),
                     <<AddCall("rfqQueue", "rfq.customer-quote-sync",
                               CustomerQuoteSyncJobData(payload),
                               JobOpts(CustomerQuoteSyncJobId(payload),
                                       KeepLimits(24 * 3600, 500),
                                       KeepLimits(7 * 24 * 3600, 500)),
                               <<payload.salesQuoteNo>>, ok)>>))
    /\ UNCHANGED erpVars

\* --- POST /vendor-quote-approval-webhook ---

\* req.body of POST /vendor-quote-approval-webhook: a parsed object, or a
\* string (text/plain), which has none of the properties
ApprovalPayloads ==
    [isObject : {TRUE},
     mpRfqId : {Undefined, "R1"}, rfqLineNo : {Undefined, "10"},
     vendorNo : {Undefined, "V1"}, systemId : {Undefined, "S1", "S2"},
     approvalStatus : {"Approved", "Rejected"}]
    \cup
    {[isObject |-> FALSE, mpRfqId |-> Undefined, rfqLineNo |-> Undefined,
      vendorNo |-> Undefined, systemId |-> Undefined, approvalStatus |-> Undefined]}

\* src/src/index.ts: the add calls are commented out
ApprovalV1(payload) ==
    /\ Observe(
         IF ~Truthy(payload.mpRfqId) \/ ~Truthy(payload.rfqLineNo)
               \/ ~Truthy(payload.vendorNo)
         THEN Served("POST /vendor-quote-approval-webhook", "index.ts", payload,
                     JsonResponse(400, "Missing required fields (mpRfqId, rfqLineNo, vendorNo)"),
                     <<>>)
         ELSE Served("POST /vendor-quote-approval-webhook", "index.ts", payload,
                     JsonResponse(200, "success"), <<>>))
    /\ UNCHANGED erpVars

WebhookData(payload) ==
    [mpRfqId |-> payload.mpRfqId, rfqLineNo |-> payload.rfqLineNo,
     vendorNo |-> payload.vendorNo, approvalStatus |-> payload.approvalStatus,
     systemId |-> payload.systemId]

QuoteApprovalJobIdWithStatus(payload) ==
    "quote-approval-" \o ToStr(payload.systemId) \o ToStr(payload.approvalStatus)

\* jobId: `quote-approval-${payload.systemId}`
QuoteApprovalJobId(payload) == "quote-approval-" \o ToStr(payload.systemId)

\* src/unnamed/part_003
ApprovalV2(payload, ok) ==
    /\ Observe(
         IF ~Truthy(payload.mpRfqId) \/ ~Truthy(payload.rfqLineNo)
               \/ ~Truthy(payload.vendorNo) \/ ~Truthy(payload.systemId)
         THEN Served("POST /vendor-quote-approval-webhook", "part_003", payload,
                     JsonResponse(400,
                        "Missing required fields (mpRfqId, rfqLineNo, vendorNo, systemId)"),
                     <<>>)
         ELSE Served("POST /vendor-quote-approval-webhook", "part_003", payload,
                     TryAdd(ok, JsonResponse(200, "success"),
                                JsonResponse(500,
                                    "Failed to handle Vendor Quote Approval webhook")),
                     <<AddCall("rfqQueue", "rfq.quote.approval",
                               [webhookData |-> WebhookData(payload)],
                               JobOpts(QuoteApprovalJobId(payload),
                                       KeepLimits(24 * 3600, 500), Unset),
                               <<payload.mpRfqId, payload.rfqLineNo, payload.vendorNo,
                                 payload.systemId>>, ok)>>))
    /\ UNCHANGED erpVars

\* --- /graph/webhook ---

\* a raw text body of this many characters or more is not taken for a token
RawBodyLimit == 200

\* req.query.validationToken: absent, or a string
NoQuery == [present |-> FALSE, v |-> <<>>]

GraphQueries ==
    {NoQuery, [present |-> TRUE, v |-> <<>>], [present |-> TRUE, v |-> <<"t", "k">>]}

\* if (validationToken)
HasToken(q) == q.present /\ Len(q.v) > 0

Resource(kind, path) == [kind |-> kind, path |-> path]

ResourceData(present, id) == [present |-> present, id |-> id]

Notification(changeType, resource, resourceData) ==
    [isNull |-> FALSE, subscriptionId |-> "sub1", changeType |-> changeType,
     resource |-> resource, resourceData |-> resourceData]

NullNotification ==
    [isNull |-> TRUE, subscriptionId |-> Undefined, changeType |-> Undefined,
     resource |-> Resource("absent", <<>>), resourceData |-> ResourceData(FALSE, Undefined)]

MessagesPath == <<"u", "/", "M", "e", "s", "s", "a", "g", "e", "s", "/", "1">>
messagesPath == <<"u", "/", "m", "e", "s", "s", "a", "g", "e", "s", "/", "2">>
EventsPath == <<"u", "/", "e", "v", "e", "n", "t", "s", "/", "1">>

\* the records of body.value
Notifications ==
    { Notification("created", Resource("string", MessagesPath), ResourceData(TRUE, "m1")),
      Notification("created", Resource("string", messagesPath), ResourceData(TRUE, "m1")),
      Notification("created", Resource("string", messagesPath), ResourceData(TRUE, "m2")),
      Notification("created", Resource("string", messagesPath), ResourceData(FALSE, Undefined)),
      Notification("updated", Resource("string", messagesPath), ResourceData(TRUE, "m1")),
      Notification("created", Resource("string", EventsPath), ResourceData(TRUE, "m1")),
      Notification("created", Resource("number", <<>>), ResourceData(TRUE, "m2")),
      NullNotification }

Batches == UNION {[1..n -> Notifications] : n \in 0..MaxBatch}

TextBody(text) == [kind |-> "text", text |-> text, hasValue |-> FALSE, value |-> <<>>]

JsonBody(hasValue, value) ==
    [kind |-> "json", text |-> <<>>, hasValue |-> hasValue, value |-> value]

\* req.body of POST /graph/webhook: a string (text/plain) or a parsed object
GraphBodies ==
    {TextBody(t) : t \in {<<>>, <<"t", "k">>, <<"{", "a">>, <<"{", "}">>, <<"1", "2">>,
                          Repeat("a", RawBodyLimit - 1), Repeat("a", RawBodyLimit)}}
    \cup {JsonBody(FALSE, <<>>)}
    \cup {JsonBody(TRUE, b) : b \in Batches}

\* the requests of POST /graph/webhook: every body without a query token;
\* with one, the bodies that are no batch or a batch of at most one record
GraphRequests ==
    [query : {NoQuery}, body : GraphBodies]
    \cup [query : GraphQueries, body : {b \in GraphBodies : Len(b.value) <= 1}]

IsRawValidationNever(body) == FALSE

\* typeof req.body === "string" && req.body.length < 200 && !req.body.startsWith("{")
IsRawValidation(body) ==
    body.kind = "text" /\ Len(body.text) < RawBodyLimit /\ ~StartsWith(body.text, <<"{">>)

\* !(!body?.value || !Array.isArray(body.value))
HasValueArray(body) == body.kind = "json" /\ body.hasValue

\* resourceData?.id
MessageId(r) == IF r.resourceData.present THEN r.resourceData.id ELSE Undefined

\* resource.toLowerCase().includes("/messages/")
IsMessagePath(path) ==
    Includes(ToLowerCase(path), <<"/", "m", "e", "s", "s", "a", "g", "e", "s", "/">>)

\* the resource paths of the records, and those among them that denote a
\* message (computed once)
ResourcePaths == {r.resource.path : r \in Notifications}
MessagePaths == {path \in ResourcePaths : IsMessagePath(path)}

\* changeType === "created" && resource?.toLowerCase().includes("/messages/")
DispatchWorthy(r) ==
    /\ r.changeType = "created"
    /\ r.resource.kind = "string"
    /\ r.resource.path \in MessagePaths

\* evaluating the record throws a TypeError: destructuring null, or calling
\* toLowerCase on a resource that is not a string
RecordThrows(r) == r.isNull \/ (r.changeType = "created" /\ r.resource.kind = "number")

\* jobId: `email-${resourceData?.id}`
EmailJobId(r) == "email-" \o ToStr(MessageId(r))

EmailReplyCall(r, ok) ==
    AddCall("producer", "email.vendor_reply",
            [model |-> "Email", operation |-> "vendor_reply",
             payload |-> [messageId |-> MessageId(r), resource |-> r.resource.path,
                          subscriptionId |-> r.subscriptionId]],
            JobOpts(EmailJobId(r), Remove(TRUE), Remove(FALSE)),
            <<MessageId(r)>>, ok)

\* jobId: `quote-ingestion-${messageId}`
QuoteIngestionJobId(r) == "quote-ingestion-" \o ToStr(MessageId(r))

QuoteIngestionCall(r, ok) ==
    AddCall("rfqQueue", "rfq.quote-ingestion", [messageId |-> MessageId(r)],
            JobOpts(QuoteIngestionJobId(r), KeepLimits(24 * 3600, 500), Unset),
            <<MessageId(r)>>, ok)

RECURSIVE GraphLoopV1(_, _, _)
\* for (const notification of body.value) of src/src/index.ts, from record i:
\* a rejected add call leaves the loop through the handler's catch
GraphLoopV1(batch, oks, i) ==
    IF i > Len(batch) THEN [calls |-> <<>>, threw |-> FALSE]
    ELSE LET r == batch[i] IN
         IF RecordThrows(r) THEN [calls |-> <<>>, threw |-> TRUE]
         ELSE IF DispatchWorthy(r)
         THEN IF ~oks[i]
              THEN [calls |-> <<EmailReplyCall(r, FALSE)>>, threw |-> TRUE]
              ELSE LET rest == GraphLoopV1(batch, oks, i + 1)
                   IN  [calls |-> <<EmailReplyCall(r, TRUE)>> \o rest.calls,
                        threw |-> rest.threw]
         ELSE GraphLoopV1(batch, oks, i + 1)

RECURSIVE GraphLoopV2(_, _, _)
\* the loop of src/unnamed/part_003, from record i: a record without message
\* id is skipped, a rejected add call is caught inside the loop and logged
GraphLoopV2(batch, oks, i) ==
    IF i > Len(batch) THEN [calls |-> <<>>, threw |-> FALSE]
    ELSE LET r == batch[i] IN
         IF RecordThrows(r) THEN [calls |-> <<>>, threw |-> TRUE]
         ELSE IF DispatchWorthy(r) /\ Truthy(MessageId(r))
         THEN LET rest == GraphLoopV2(batch, oks, i + 1)
              IN  [calls |-> <<QuoteIngestionCall(r, oks[i])>> \o rest.calls,
                   threw |-> rest.threw]
         ELSE GraphLoopV2(batch, oks, i + 1)

GraphLoop(src, batch, oks) ==
    IF src = "index.ts" THEN GraphLoopV1(batch, oks, 1) ELSE GraphLoopV2(batch, oks, 1)

\* app.post("/graph/webhook") of src/src/index.ts and src/unnamed/part_003
GraphPost(src, req, oks) ==
    LET q == req.query
        body == req.body
        run == GraphLoop(src, body.value, oks)
    IN  /\ Observe(
             IF HasToken(q)
             THEN Served("POST /graph/webhook", src, req, TextResponse(200, q.v), <<>>)
             ELSE IF IsRawValidation(body)
             THEN Served("POST /graph/webhook", src, req, TextResponse(200, body.text), <<>>)
             ELSE IF ~HasValueArray(body)
             THEN Served("POST /graph/webhook", src, req,
                         JsonResponse(400, "Invalid notification format"), <<>>)
             ELSE IF run.threw
             THEN Served("POST /graph/webhook", src, req,
                         JsonResponse(500, "Failed to handle graph webhook"), run.calls)
             ELSE Served("POST /graph/webhook", src, req,
                         JsonResponse(202, "accepted"), run.calls))
        /\ UNCHANGED erpVars

\* app.get("/graph/webhook"), the same in both files
GraphGet(src, q) ==
    /\ Observe(
         IF HasToken(q)
         THEN Served("GET /graph/webhook", src, [query |-> q, body |-> TextBody(<<>>)],
                     TextResponse(200, q.v), <<>>)
         ELSE Served("GET /graph/webhook", src, [query |-> q, body |-> TextBody(<<>>)],
                     JsonResponse(400, "Missing validationToken"), <<>>))
    /\ UNCHANGED erpVars

Sources == {"index.ts", "part_003"}

\* the records for which a handler calls add
CallingRecords == {r \in Notifications : ~RecordThrows(r) /\ DispatchWorthy(r)}

\* the outcomes of the add calls of one request: one per record of its batch
\* (TRUE where the record causes no call)
Outcomes(req) ==
    {oks \in [DOMAIN req.body.value -> BOOLEAN] :
        \A i \in DOMAIN oks : req.body.value[i] \notin CallingRecords => oks[i]}

NextDispatch ==
    \/ last = Idle /\ \E payload \in AcceptedErpPayloads, ok \in BOOLEAN :
                          DebouncedDispatch(payload, ok)
    \/ last = Idle /\ \E payload \in ErpPayloads, ok \in BOOLEAN :
                          DirectWebhook(payload, ok)
    \/ last = Idle /\ \E payload \in SalesQuotePayloads, ok \in BOOLEAN :
                          SalesQuoteV1(payload, ok)
    \/ last = Idle /\ \E payload \in SalesQuotePayloads, ok \in BOOLEAN :
                          SalesQuoteV2(payload, ok)
    \/ last = Idle /\ \E payload \in ApprovalPayloads : ApprovalV1(payload)
    \/ last = Idle /\ \E payload \in ApprovalPayloads, ok \in BOOLEAN :
                          ApprovalV2(payload, ok)
    \/ last = Idle /\ \E src \in Sources, q \in GraphQueries : GraphGet(src, q)
    \/ last = Idle /\ \E src \in Sources, req \in GraphRequests :
                          \E oks \in Outcomes(req) : GraphPost(src, req, oks)
    \/ Retire /\ UNCHANGED erpVars

SpecDispatch == Init /\ [][NextDispatch]_vars

----------------------------------------------------------------------------
(* Properties of the debounce (Spec)                                       *)

AllKeys == {CorrelationKey(p.table, p.data.No) : p \in ErpPayloads}

\* the accepted events of key k, by their position in the arrival order
KeyEvents(k) == {i \in DOMAIN accepted : accepted[i].key = k}

TimersOf(ts, k) == {t \in ts : t.key = k}

\* the add calls whose callback is still suspended at its await
InFlight == {n \in DOMAIN added : added[n].result = "pending"}

\* i..j is a run of events of key k, each less than DEBOUNCE_MS after the
\* previous one
Burst(k, i, j) ==
    /\ i \in KeyEvents(k) /\ j \in KeyEvents(k) /\ i < j
    /\ \A a \in KeyEvents(k), b \in KeyEvents(k) :
          (i <= a /\ a < b /\ b <= j /\ ~\E c \in KeyEvents(k) : a < c /\ c < b)
          => accepted[b].at - accepted[a].at < DEBOUNCE_MS

\* the window of event j has elapsed and no event of k arrived during it
WindowClosed(k, j) ==
    /\ now > accepted[j].at + DEBOUNCE_MS
    /\ \A c \in KeyEvents(k) : c > j => accepted[c].at > accepted[j].at + DEBOUNCE_MS

\* C1: a burst of two or more events of one key, each less than DEBOUNCE_MS
\* after the previous one and followed by a quiet window, causes exactly one
\* producer.add("bc-sync", ...) call, carrying the payload of its last event.
C1_Coalescing ==
    \A k \in AllKeys : \A i \in KeyEvents(k), j \in KeyEvents(k) :
        (Burst(k, i, j) /\ WindowClosed(k, j)) =>
            LET calls == {n \in DOMAIN added :
                            added[n].key = k /\ added[n].timer \in i..j}
            IN  /\ Cardinality(calls) = 1
                /\ \A n \in calls : /\ added[n].name = "bc-sync"
                                    /\ added[n].data = accepted[j].payload

\* C2: at most one scheduled, not yet fired debounce timer exists per key.
C2_OneTimerPerKey ==
    \A k \in AllKeys : Cardinality(TimersOf(timers, k)) <= 1

\* C3: the payload a timer callback submits for key k is the payload of the
\* most recently accepted event of k at the moment the timer fires.
C3_LatestPayload ==
    \A n \in DOMAIN added :
        \A i \in KeyEvents(added[n].key) :
            (i <= added[n].seen
             /\ \A c \in KeyEvents(added[n].key) : c <= added[n].seen => c <= i)
            => added[n].data = accepted[i].payload

\* C4: while a debounce cycle of key k is alive (its timer is scheduled, or the
\* add call its timer started has not settled), pendingEvents holds an entry
\* for k.
C4_EntryWhileCycleAlive ==
    /\ \A t \in timers : MapHas(pendingEvents, t.key)
    /\ \A n \in InFlight : MapHas(pendingEvents, added[n].key)

\* the map entry and the timers of key k are the same before and after the step
KeyUntouched(k) ==
    /\ MapHas(pendingEvents', k) <=> MapHas(pendingEvents, k)
    /\ MapHas(pendingEvents, k) => pendingEvents'[k] = pendingEvents[k]
    /\ TimersOf(timers', k) = TimersOf(timers, k)

\* a step of the handler, of the timer callback or of its cleanup, for key k
StepOfKey(k) ==
    \/ \E p \in ErpPayloads : CorrelationKey(p.table, p.data.No) = k /\ Webhook(p)
    \/ \E t \in timers : t.key = k /\ TimerFire(t)
    \/ \E n \in DOMAIN added, ok \in BOOLEAN : added[n].key = k /\ AddSettled(n, ok)

\* C5: accepting an event of key k, the firing of k's timer and the cleanup
\* after k's submission leave the timer and the map entry of every other key
\* as they were.
C5_Independence ==
    [][\A k \in AllKeys :
          StepOfKey(k) => \A k2 \in AllKeys \ {k} : KeyUntouched(k2)]_vars

\* C5 witness: the add call of one key has settled (its timer fired and its
\* cleanup ran) while the timer of another key, set before that timer fired,
\* is still scheduled and still the entry of its key.
C5_Witness ==
    \E n \in DOMAIN added : \E t \in timers :
        /\ added[n].result # "pending"
        /\ t.key # added[n].key
        /\ t.id <= added[n].seen
        /\ MapHas(pendingEvents, t.key)
        /\ pendingEvents[t.key] = t.id

----------------------------------------------------------------------------
(* Properties of the dispatch sites (SpecDispatch)                         *)

GraphPostServed == last.route = "POST /graph/webhook"

\* the request carries a non-empty validationToken query parameter
QueryToken(req) == req.query.present /\ req.query.v # <<>>

\* the text bodies of GraphBodies that are JSON texts: {} and 12
JsonTexts == {<<"{", "}">>, <<"1", "2">>}

ShortText(body) == body.kind = "text" /\ Len(body.text) < 200

\* the token a handshake request carries
TokenOf(req) == IF QueryToken(req) THEN req.query.v ELSE req.body.text

\* the answer to a handshake: 200, plain text, the exact token, nothing queued
Echoed(served) ==
    /\ served.resp.status = 200
    /\ served.resp.ctype = "text/plain"
    /\ served.resp.text = TokenOf(served.req)
    /\ served.calls = <<>>

\* C6 as stated: a request to /graph/webhook with a validationToken query
\* parameter, or with a text body shorter than 200 characters that is not
\* JSON, is answered 200 with the exact token as plain text and queues nothing.
C6_HandshakeNonJson ==
    (\/ last.route \in {"GET /graph/webhook", "POST /graph/webhook"}
           /\ QueryToken(last.req)
     \/ GraphPostServed /\ ShortText(last.req.body)
           /\ last.req.body.text \notin JsonTexts)
    => Echoed(last)

\* C6 amended: a request to /graph/webhook with a non-empty validationToken
\* query parameter (GET or POST), or a POST with a text body shorter than 200
\* characters that does not start with "{", is answered 200 with the exact
\* token as plain text and queues nothing.
C6_Handshake ==
    (\/ last.route \in {"GET /graph/webhook", "POST /graph/webhook"}
           /\ QueryToken(last.req)
     \/ GraphPostServed /\ ShortText(last.req.body)
           /\ (last.req.body.text = <<>> \/ last.req.body.text[1] # "{"))
    => Echoed(last)

\* C6 witness: a POST without query token whose text body of 199 characters
\* was echoed.
C6_Witness ==
    /\ GraphPostServed
    /\ ~QueryToken(last.req)
    /\ last.req.body.kind = "text"
    /\ Len(last.req.body.text) = 199
    /\ Echoed(last)

\* C7 as stated: every job submission of the timer callback and of the
\* sales-quote, quote-approval and mail-notification handlers passes a jobId.
C7_EverySubmissionHasJobId ==
    last.route \in {"setTimeout callback", "POST /sales-quote-webhook",
                    "POST /vendor-quote-approval-webhook", "POST /graph/webhook"}
    => \A i \in DOMAIN last.calls : last.calls[i].opts.jobId # Undefined

\* the jobId each job family is submitted under, from the identity-bearing
\* fields of the payload
ExpectedJobId(name, ident) ==
    CASE name = "pg-events" -> "customer-quote-" \o ToStr(ident[1])
      [] name = "rfq.customer-quote-sync" -> "customer-quote-sync-" \o ToStr(ident[1])
      [] name = "rfq.quote.approval" -> "quote-approval-" \o ToStr(ident[4])
      [] name = "email.vendor_reply" -> "email-" \o ToStr(ident[1])
      [] name = "rfq.quote-ingestion" -> "quote-ingestion-" \o ToStr(ident[1])
      [] OTHER -> Undefined

\* the identity-bearing fields of the request a sales-quote or quote-approval
\* call was made for
RequestIdent(served) ==
    CASE served.route = "POST /sales-quote-webhook" -> <<served.req.salesQuoteNo>>
      [] served.route = "POST /vendor-quote-approval-webhook" ->
            <<served.req.mpRfqId, served.req.rfqLineNo, served.req.vendorNo,
              served.req.systemId>>

\* C7 amended: every job submission of the sales-quote, quote-approval and
\* mail-notification handlers passes a jobId that is the family's prefix
\* followed by the business identifier of the payload (salesQuoteNo, systemId,
\* resourceData.id); the ERP sync job "bc-sync" is submitted without a jobId.
C7_JobIds ==
    \A i \in DOMAIN last.calls :
        LET call == last.calls[i] IN
        /\ call.name = "bc-sync" => call.opts.jobId = Undefined
        /\ call.name # "bc-sync" =>
              /\ call.opts.jobId # Undefined
              /\ call.opts.jobId = ExpectedJobId(call.name, call.ident)
        /\ last.route \in {"POST /sales-quote-webhook",
                           "POST /vendor-quote-approval-webhook"}
              => call.ident = RequestIdent(last)
        /\ GraphPostServed =>
              \E k \in DOMAIN last.req.body.value :
                  /\ ~last.req.body.value[k].isNull
                  /\ call.ident = <<IF last.req.body.value[k].resourceData.present
                                    THEN last.req.body.value[k].resourceData.id
                                    ELSE Undefined>>

\* C7 witness: a quote approval submitted under the jobId an earlier delivery
\* with the same systemId was submitted under.
C7_Witness ==
    /\ last.route = "POST /vendor-quote-approval-webhook"
    /\ Len(last.calls) = 1
    /\ last.calls[1].opts.jobId = "quote-approval-S1"
    /\ earlier # NoCall
    /\ earlier.name = "rfq.quote.approval"
    /\ earlier.jobId = last.calls[1].opts.jobId

\* C8: two add calls of one job family (sales quote, quote approval, mail
\* notification) built from payloads that agree on the identity-bearing
\* fields pass the same jobId, within one request or across requests.
C8_SameIdentitySameJobId ==
    \A i \in DOMAIN last.calls :
        LET call == last.calls[i] IN
        call.name # "bc-sync" =>
            /\ (earlier # NoCall /\ earlier.name = call.name
                   /\ earlier.ident = call.ident)
                => earlier.jobId = call.opts.jobId
            /\ \A j \in DOMAIN last.calls :
                  (last.calls[j].name = call.name /\ last.calls[j].ident = call.ident)
                  => last.calls[j].opts.jobId = call.opts.jobId

\* C8 witness: two calls of one batch for the same message id whose other
\* payload fields differ, under the jobId an earlier request's call for that
\* message id was submitted under.
C8_Witness ==
    /\ GraphPostServed
    /\ earlier # NoCall
    /\ \E i \in DOMAIN last.calls, j \in DOMAIN last.calls :
          /\ last.calls[i].name = last.calls[j].name
          /\ last.calls[i].ident = last.calls[j].ident
          /\ last.calls[i].data # last.calls[j].data
          /\ last.calls[i].opts.jobId = last.calls[j].opts.jobId
          /\ earlier.name = last.calls[i].name
          /\ earlier.ident = last.calls[i].ident
          /\ earlier.jobId = last.calls[i].opts.jobId

\* a batch was looped over: no handshake, body.value is an array
BatchServed ==
    /\ GraphPostServed
    /\ ~QueryToken(last.req)
    /\ last.req.body.kind = "json"
    /\ last.req.body.hasValue

\* record r is a "created" notification on a message resource
CreatedMessage(r) ==
    /\ ~r.isNull
    /\ r.changeType = "created"
    /\ r.resource.kind = "string"
    /\ IsMessagePath(r.resource.path)

HasId(r) == r.resourceData.present /\ r.resourceData.id # Undefined

\* the message ids of the records of the batch that are to be submitted
IdsToSubmit(batch) ==
    LET F[i \in 0..Len(batch)] ==
            IF i = 0 THEN <<>>
            ELSE IF CreatedMessage(batch[i]) /\ HasId(batch[i])
                 THEN Append(F[i - 1], batch[i].resourceData.id)
                 ELSE F[i - 1]
    IN  F[Len(batch)]

\* C9: in each mail-notification handler, when a batch of well-formed records
\* holds a "created" message record without resourceData.id and no add call
\* rejects, that record causes no submission, every other dispatch-worthy
\* record is submitted, and the answer is 202.
C9_MissingIdSkipped ==
    (/\ BatchServed
     /\ \A k \in DOMAIN last.req.body.value :
           /\ ~last.req.body.value[k].isNull
           /\ last.req.body.value[k].resource.kind = "string"
     /\ \E k \in DOMAIN last.req.body.value :
           CreatedMessage(last.req.body.value[k]) /\ ~HasId(last.req.body.value[k])
     /\ \A i \in DOMAIN last.calls : last.calls[i].ok)
    => /\ [i \in DOMAIN last.calls |-> last.calls[i].ident[1]]
            = IdsToSubmit(last.req.body.value)
       /\ last.resp.status = 202

MissingRequired(served) ==
    CASE served.route = "POST /webhook" ->
            \/ served.req.table = Undefined \/ served.req.action = Undefined
            \/ ~served.req.data.present \/ served.req.data.No = Undefined
      [] served.route = "POST /sales-quote-webhook" ->
            \/ served.req.salesQuoteNo = Undefined
            \/ served.req.opportunityNo = Undefined
            \/ ~served.req.lines.isArray \/ served.req.lines.items = <<>>
      [] served.route = "POST /vendor-quote-approval-webhook" ->
            \/ served.req.mpRfqId = Undefined \/ served.req.rfqLineNo = Undefined
            \/ served.req.vendorNo = Undefined \/ served.req.systemId = Undefined
      [] OTHER -> FALSE

\* C11: a request to the ERP, sales-quote or quote-approval webhook in which a
\* required field is absent is answered 400 and no add call is made for it.
C11_MissingFieldRejected ==
    MissingRequired(last) => last.resp.status = 400 /\ last.calls = <<>>

\* the request body is malformed: not an object, a data field that is not an
\* object, or a lines array with an element that is not an object
Malformed(served) ==
    /\ served.route \in {"POST /webhook", "POST /sales-quote-webhook",
                         "POST /vendor-quote-approval-webhook"}
    /\ \/ ~served.req.isObject
       \/ served.route = "POST /webhook"
             /\ served.req.data.present /\ ~served.req.data.isObject
       \/ served.route = "POST /sales-quote-webhook" /\ LinesThrow(served.req)

\* C12: a malformed body sent to the ERP, sales-quote or quote-approval
\* webhook never makes the handler take its exception path: when no add call
\* rejects, the answer is not 500.
C12_NoExceptionPath ==
    (Malformed(last) /\ \A i \in DOMAIN last.calls : last.calls[i].ok)
    => last.resp.status # 500


\* record r is malformed: null, or its resource is not a string
MalformedRecord(r) == r.isNull \/ r.resource.kind # "string"

\* C13: when a batch holds a malformed record (and no "created" message record
\* without id, and no add call rejects), every dispatch-worthy record of the
\* batch, before and after the malformed one, is submitted and the answer is 202.
C13_MalformedRecordSkipped ==
    (/\ BatchServed
     /\ \E k \in DOMAIN last.req.body.value : MalformedRecord(last.req.body.value[k])
     /\ \A k \in DOMAIN last.req.body.value :
           CreatedMessage(last.req.body.value[k]) => HasId(last.req.body.value[k])
     /\ \A i \in DOMAIN last.calls : last.calls[i].ok)
    => /\ last.resp.status = 202
       /\ [i \in DOMAIN last.calls |-> last.calls[i].ident[1]]
            = IdsToSubmit(last.req.body.value)

\* the effective policy of an add call: its options merged over the
\* defaultJobOptions of its queue (no call passes attempts or backoff)
EffectivePolicy(call) ==
    LET dflt == DefaultJobOptions(call.queue) IN
    [attempts |-> dflt.attempts, backoff |-> dflt.backoff,
     removeOnComplete |-> IF call.opts.removeOnComplete = Unset
                          THEN dflt.removeOnComplete ELSE call.opts.removeOnComplete,
     removeOnFail |-> IF call.opts.removeOnFail = Unset
                      THEN dflt.removeOnFail ELSE call.opts.removeOnFail]

\* 5 attempts, exponential 2 s, completed removed at once, failed kept
GenericPolicy ==
    [attempts |-> 5, backoff |-> [type |-> "exponential", delay |-> 2000],
     removeOnComplete |-> [kind |-> "true", age |-> 0, count |-> 0],
     removeOnFail |-> [kind |-> "false", age |-> 0, count |-> 0]]

\* 3 attempts, exponential 1 s, completed kept 24 h / 500, failed 7 d / 500
RfqPolicy ==
    [attempts |-> 3, backoff |-> [type |-> "exponential", delay |-> 1000],
     removeOnComplete |-> [kind |-> "limits", age |-> 86400, count |-> 500],
     removeOnFail |-> [kind |-> "limits", age |-> 604800, count |-> 500]]

\* C14 as stated: ERP sync, email-reply and quote-ingestion jobs carry the
\* generic policy, customer-quote-sync and quote-approval jobs the RFQ policy.
C14_FamilyPolicy ==
    \A i \in DOMAIN last.calls :
        LET call == last.calls[i] IN
        /\ call.name \in {"bc-sync", "email.vendor_reply", "rfq.quote-ingestion"}
              => EffectivePolicy(call) = GenericPolicy
        /\ call.name \in {"rfq.customer-quote-sync", "rfq.quote.approval"}
              => EffectivePolicy(call) = RfqPolicy

\* C14 amended: the jobs added to producer (ERP sync "bc-sync", "pg-events"
\* customer quotes and "email.vendor_reply" of src/src/index.ts) carry the
\* generic policy; the jobs added to rfqQueue (customer-quote-sync, quote
\* approval and quote-ingestion) carry the RFQ policy.
C14_EffectivePolicy ==
    \A i \in DOMAIN last.calls :
        LET call == last.calls[i] IN
        /\ call.name \in {"bc-sync", "pg-events", "email.vendor_reply"}
              => call.queue = "producer" /\ EffectivePolicy(call) = GenericPolicy
        /\ call.name \in {"rfq.customer-quote-sync", "rfq.quote.approval",
                          "rfq.quote-ingestion"}
              => call.queue = "rfqQueue" /\ EffectivePolicy(call) = RfqPolicy
        /\ call.name \in {"bc-sync", "pg-events", "email.vendor_reply",
                          "rfq.customer-quote-sync", "rfq.quote.approval",
                          "rfq.quote-ingestion"}

\* C14 witness: a quote-ingestion job was added to rfqQueue with only
\* removeOnComplete passed, its removeOnFail inherited from the queue.
C14_Witness ==
    /\ GraphPostServed
    /\ \E i \in DOMAIN last.calls :
          /\ last.calls[i].name = "rfq.quote-ingestion"
          /\ last.calls[i].opts.removeOnFail = Unset
          /\ EffectivePolicy(last.calls[i]).removeOnFail.age = 604800
          /\ last.calls[i].ok

QuoteSyncSubmitted ==
    /\ last.route = "POST /sales-quote-webhook"
    /\ last.src = "part_003"
    /\ Len(last.calls) = 1
    /\ last.calls[1].ok

\* C16: in the job payload of the sales-quote handler of src/unnamed/part_003
\* a supplied value is passed through unchanged, 0 and false included, and a
\* default is used only for an absent field: validityDays 30, convertToOrder
\* true, lineAmount unitPrice x quantity.
C16_DefaultsOnlyWhenAbsent ==
    QuoteSyncSubmitted =>
        LET payload == last.req
            data == last.calls[1].data
        IN  /\ data.validityDays =
                  IF payload.validityDays.has THEN payload.validityDays
                  ELSE [has |-> TRUE, n |-> 30]
            /\ \A i \in DOMAIN payload.lines.items :
                  LET line == payload.lines.items[i] IN
                  /\ data.lines[i].convertToOrder =
                        IF line.convertToOrder # Undefined THEN line.convertToOrder
                        ELSE "true"
                  /\ data.lines[i].lineAmount =
                        IF line.lineAmount.has THEN line.lineAmount
                        ELSE [has |-> TRUE, n |-> line.unitPrice.n * line.quantity.n]

\* event e of key k is the one event of k accepted after the timer of call n
\* fired, and it was accepted before call n settled
AcceptedInFlight(k, n, e) ==
    /\ added[n].key = k
    /\ e \in KeyEvents(k)
    /\ {c \in KeyEvents(k) : c > added[n].seen} = {e}
    /\ added[n].result = "pending" \/ e <= added[n].settledSeen

\* C17: when one event e of key k is accepted while the add call n started by
\* k's timer is in flight, and no further event of k arrives, call n is not
\* cancelled and e has its own cycle: the only later call for k is the call of
\* e's timer, made one window after e was accepted and carrying e's payload,
\* and once no timer of k is scheduled that call has been made, so that two
\* calls were made, the first with the earlier payload.
C17_InFlightEventOwnCycle ==
    \A k \in AllKeys : \A n \in DOMAIN added : \A e \in KeyEvents(k) :
        AcceptedInFlight(k, n, e) =>
            LET after == {m \in DOMAIN added : added[m].key = k /\ m > n} IN
            /\ added[n].data = accepted[added[n].timer].payload
            /\ added[n].timer < e
            /\ Cardinality(after) <= 1
            /\ \A m \in after :
                  /\ added[m].timer = e
                  /\ added[m].data = accepted[e].payload
                  /\ added[m].at >= accepted[e].at + 10000
                  /\ added[m].at < accepted[e].at + 10000 + TickMs
            /\ TimersOf(timers, k) = {} => Cardinality(after) = 1
            /\ TimersOf(timers, k) # {} =>
                  /\ after = {}
                  /\ \A t \in TimersOf(timers, k) : t.id = e

\* C17 witness: an event with a new payload was accepted between the firing of
\* its key's timer and the settling of that timer's add call; both add calls
\* have been made and have settled.
C17_Witness ==
    \E k \in AllKeys : \E n \in DOMAIN added : \E e \in KeyEvents(k) :
        /\ AcceptedInFlight(k, n, e)
        /\ added[n].result # "pending"
        /\ \E m \in DOMAIN added :
              /\ m > n
              /\ added[m].timer = e
              /\ added[m].result # "pending"
              /\ added[m].data # added[n].data

\* the keys of the events POST /webhook accepts
EventKeys == {CorrelationKey(p.table, p.data.No) : p \in AcceptedErpPayloads}

\* the last accepted event of key k
LastEvent(k) == CHOOSE e \in KeyEvents(k) : \A c \in KeyEvents(k) : c <= e

\* a submission attempt was made with the payload of the last accepted event
\* of key k
LastSubmitted(k) ==
    /\ KeyEvents(k) # {}
    /\ \E n \in DOMAIN added :
          /\ added[n].timer = LastEvent(k)
          /\ added[n].name = "bc-sync"
          /\ added[n].data = accepted[LastEvent(k)].payload

\* C18: with timers expiring fairly, from every state in which an event of key
\* k has been accepted a state is reached in which a submission attempt has
\* been made that carries the payload of the last accepted event of k.
C18_Liveness ==
    \A k \in EventKeys : (KeyEvents(k) # {}) ~> LastSubmitted(k)

\* C18 witness: key k had several events, the timers of the earlier ones were
\* cleared, and the call made for k carries the payload of its last event.
C18_Witness ==
    \E k \in EventKeys :
        /\ Cardinality(KeyEvents(k)) >= 2
        /\ LastSubmitted(k)
        /\ Cardinality({n \in DOMAIN added : added[n].key = k}) = 1
        /\ accepted[LastEvent(k)].at > 0

\* C20: once no timer is scheduled and no add call is pending, the
\* pendingEvents map is empty.
C20_NoLeak ==
    (timers = {} /\ InFlight = {}) => pendingEvents = EmptyMap

\* C20 witness: events were accepted, one of them while the add call of its
\* key was in flight, a call was rejected, everything has fired and settled,
\* and the map is empty.
C20_Witness ==
    /\ timers = {}
    /\ InFlight = {}
    /\ pendingEvents = EmptyMap
    /\ \E n \in DOMAIN added : added[n].result = "logged"
    /\ \E n \in DOMAIN added : \E e \in DOMAIN accepted :
          /\ accepted[e].key = added[n].key
          /\ added[n].seen < e
          /\ e <= added[n].settledSeen

\* C19: in a batch, add calls are made for "created" records on a message
\* resource only, and no other record changes the answer: unless an add call
\* rejects, the batch is answered 202, also when it holds no dispatch-worthy
\* record.
C19_OnlyCreatedMessages ==
    BatchServed =>
        /\ \A i \in DOMAIN last.calls :
              \E k \in DOMAIN last.req.body.value :
                  /\ CreatedMessage(last.req.body.value[k])
                  /\ last.calls[i].ident =
                        <<IF last.req.body.value[k].resourceData.present
                          THEN last.req.body.value[k].resourceData.id ELSE Undefined>>
        /\ Len(last.calls) <=
              Cardinality({k \in DOMAIN last.req.body.value :
                              CreatedMessage(last.req.body.value[k])})
        /\ (\A i \in DOMAIN last.calls : last.calls[i].ok) => last.resp.status = 202

\* the record an accepted event is about
RecordOf(e) == <<accepted[e].payload.table, accepted[e].payload.data.No>>

\* the timer of accepted event e was cleared: it is not scheduled and it never
\* fired
Cancelled(e) ==
    /\ \A t \in timers : t.id # e
    /\ \A n \in DOMAIN added : added[n].timer # e

\* C21: accepted events of different records (table, data["No."]) have
\* different correlation keys, and the pending dispatch of an event is
\* cancelled only by an event of the same record.
C21_KeyInjective ==
    /\ \A i \in DOMAIN accepted, j \in DOMAIN accepted :
          RecordOf(i) # RecordOf(j) => accepted[i].key # accepted[j].key
    /\ \A e \in DOMAIN accepted :
          Cancelled(e) => \E c \in DOMAIN accepted : c > e /\ RecordOf(c) = RecordOf(e)

\* event j of the same record follows event i within the window of i and
\* carries another action
ActionChanged(i, j) ==
    /\ i < j
    /\ RecordOf(i) = RecordOf(j)
    /\ accepted[i].payload.action # accepted[j].payload.action
    /\ accepted[j].at - accepted[i].at < DEBOUNCE_MS

\* C22: two accepted events of one record with different actions share one
\* correlation key; when the second arrives within the window of the first,
\* the first event is never submitted, and once the window of the second has
\* closed exactly one producer.add call was made for the two, carrying the
\* second event's action and data.
C22_ActionIgnored ==
    \A i \in DOMAIN accepted, j \in DOMAIN accepted :
        ActionChanged(i, j) =>
            /\ accepted[i].key = accepted[j].key
            /\ \A n \in DOMAIN added : added[n].timer # i
            /\ WindowClosed(accepted[j].key, j) =>
                  LET calls == {n \in DOMAIN added : added[n].timer \in {i, j}}
                  IN  /\ Cardinality(calls) = 1
                      /\ \A n \in calls : added[n].data = accepted[j].payload


\* the two families of the claim: quote approvals and sales-quote syncs
DedupFamily(name) == name \in {"rfq.quote.approval", "rfq.customer-quote-sync"}

\* the broker still holds the job of the earlier call
Held == earlier # NoCall /\ earlier.ok

\* the content of the job the broker holds under the call's jobId once the
\* call has resolved, for a broker that absorbs a submission whose jobId it
\* already holds
JobContent(call) ==
    IF Held /\ earlier.jobId = call.opts.jobId THEN earlier.data ELSE call.data

\* C23: with a broker that absorbs a submission whose jobId equals that of a
\* job it still holds, every accepted quote-approval or sales-quote delivery
\* results in a broker job that carries the content of that delivery.
C23_NoChangeLost ==
    \A i \in DOMAIN last.calls :
        LET call == last.calls[i]
        IN  (DedupFamily(call.name) /\ call.ok /\ last.resp.status = 200)
                => JobContent(call) = call.data


\* the body lacks table, action, data or data["No."]
MissingField(p) ==
    \/ p.table = Undefined \/ p.table = ""
    \/ p.action = Undefined \/ p.action = ""
    \/ ~p.data.present
    \/ p.data.No = Undefined \/ p.data.No = ""

\* C24: a POST /webhook request that lacks table, action, data or data["No."]
\* is answered 400, and a request answered 400 leaves the pendingEvents map,
\* every scheduled timer (its due time and its payload), the accepted events
\* and the add calls as they were.
C24_RejectedChangesNothing ==
    [][\A p \in ErpPayloads :
          (Webhook(p) /\ (MissingField(p) \/ resp'.status = 400))
          => /\ resp'.status = 400
             /\ UNCHANGED <<pendingEvents, timers, accepted, added>>]_vars

\* C24 witness: the last request was rejected for its missing "No." while the
\* timer of an earlier valid event of the same table is scheduled, and that
\* timer is still due DEBOUNCE_MS after its event with the event's payload.
C24_Witness ==
    /\ resp = JsonResponse(400, "ERP No missing in data")
    /\ \E t \in timers :
          /\ t.payload.table = "Item"
          /\ MapHas(pendingEvents, t.key) /\ pendingEvents[t.key] = t.id
          /\ t.due = accepted[t.id].at + DEBOUNCE_MS
          /\ t.payload = accepted[t.id].payload


\* the identifier of the call that is interpolated into its jobId: systemId
\* for a quote approval, otherwise salesQuoteNo or the id of the message
JobIdentifier(call) ==
    IF call.name = "rfq.quote.approval" THEN call.ident[4] ELSE call.ident[1]

\* C25: every add call that passes a jobId is made with the identifier its
\* jobId is built from present, so no job is submitted under a jobId built
\* from an absent identifier.
C25_JobIdFromPresentIdentifier ==
    \A i \in DOMAIN last.calls :
        LET call == last.calls[i]
        IN  call.opts.jobId # Undefined => JobIdentifier(call) # Undefined

====
